---------------------------- MODULE Spec2Model ----------------------------
(***************************************************************************)
(* Model of fredy's listing ingestion core:                                *)
(*   lib/provider/immoscout.js       getListings, parseSalutation,         *)
(*                                   getListingInfo, normalize,            *)
(*                                   applyBlacklist, init, and the         *)
(*                                   notification registry's send          *)
(*   lib/services/geocoding/geocoding.js  throttledFetch, reverseGeocode,  *)
(*                                   extractAddressComponents, getSuburb   *)
(*   ui/src/views/jobs/Jobs.jsx      the processing-times refresh effect   *)
(*                                                                         *)
(* Each component has its own specification (SpecSalutation, SpecListings, *)
(* SpecNormalize, SpecIds, SpecNotify, SpecGeo, SpecDetail, SpecBlacklist, *)
(* SpecJobsView); the variables of the components a specification does not *)
(* use stay at their initial values.  Spec is their union.                 *)
(*                                                                         *)
(* JavaScript values are records tagged by their type:                     *)
(*   [t |-> "null"], [t |-> "undefined"], [t |-> "nan"], [t |-> "inf"],    *)
(*   [t |-> "num", n |-> 3], [t |-> "str", s |-> <<"a", "b">>]             *)
(* A string is the sequence of its characters.                             *)
(***************************************************************************)
EXTENDS Integers, Sequences, FiniteSets, TLC

VARIABLES
    \* parseSalutation
    name, salutation, scriptSalutation,
    \* getListings
    upstream, listings,
    \* normalize
    raw, o, assigned,
    \* notification registry
    adapters, notificationConfig, attempted, sendResult,
    \* geocoding service and its limiter
    now, currentTick, activeCount, calls, started, completed,
    \* getListingInfo
    detail, listingInfo,
    \* blacklist
    appliedBlackList, config, jobs,
    \* Jobs view
    mounted, processingTimes, timeoutId, requestPending, lastRun

salutationVars == <<name, salutation, scriptSalutation>>
listingsVars == <<upstream, listings>>
normalizeVars == <<raw, o, assigned>>
notifyVars == <<adapters, notificationConfig, attempted, sendResult>>
geoVars == <<currentTick, activeCount, calls, started, completed>>
detailVars == <<detail, listingInfo>>
blacklistVars == <<appliedBlackList, config, jobs>>
viewVars == <<mounted, processingTimes, timeoutId, requestPending, lastRun>>
vars == <<salutationVars, listingsVars, normalizeVars, notifyVars, now, geoVars,
          detailVars, blacklistVars, viewVars>>

---------------------------------------------------------------------------
(* JavaScript values *)

Null == [t |-> "null"]
Undefined == [t |-> "undefined"]
NaN == [t |-> "nan"]
Infinity == [t |-> "inf"]
Num(k) == [t |-> "num", n |-> k]
Str(chars) == [t |-> "str", s |-> chars]
\* the value a step has not produced yet
Pending == [t |-> "pending"]
\* the outcome of a call that threw (or whose promise rejected)
Thrown == [t |-> "thrown"]

IsString(v) == v.t = "str"
\* typeof v === 'number': NaN and the infinities are numbers too
IsNumberType(v) == v.t \in {"num", "nan", "inf"}
\* v == null
IsNullish(v) == v.t \in {"null", "undefined"}
\* Number.isFinite(v)
IsFinite(v) == v.t = "num"
\* !!v
Truthy(v) ==
    CASE v.t \in {"null", "undefined", "nan"} -> FALSE
      [] v.t = "num" -> v.n # 0
      [] v.t = "str" -> v.s # <<>>
      [] OTHER -> TRUE

---------------------------------------------------------------------------
(* Strings *)

UpperChars ==
    <<"A", "B", "C", "D", "E", "F", "G", "H", "I", "J", "K", "L", "M",
      "N", "O", "P", "Q", "R", "S", "T", "U", "V", "W", "X", "Y", "Z">>
LowerChars ==
    <<"a", "b", "c", "d", "e", "f", "g", "h", "i", "j", "k", "l", "m",
      "n", "o", "p", "q", "r", "s", "t", "u", "v", "w", "x", "y", "z">>
DigitChars == <<"0", "1", "2", "3", "4", "5", "6", "7", "8", "9">>

Range(f) == {f[i] : i \in DOMAIN f}

\* \w
IsWordChar(c) == c \in Range(UpperChars) \cup Range(LowerChars) \cup Range(DigitChars) \cup {"_"}
\* \s
IsSpaceChar(c) == c \in {" ", "\t", "\n"}

ToLower(c) ==
    IF c \in Range(UpperChars)
    THEN LowerChars[CHOOSE i \in DOMAIN UpperChars : UpperChars[i] = c]
    ELSE c

LowerCase(s) == [i \in DOMAIN s |-> ToLower(s[i])]

\* String.prototype.trim
RECURSIVE TrimStart(_)
TrimStart(s) ==
    IF s # <<>> /\ IsSpaceChar(Head(s)) THEN TrimStart(Tail(s)) ELSE s

RECURSIVE TrimEnd(_)
TrimEnd(s) ==
    IF s # <<>> /\ IsSpaceChar(s[Len(s)]) THEN TrimEnd(SubSeq(s, 1, Len(s) - 1)) ELSE s

Trim(s) == TrimEnd(TrimStart(s))

\* \w+ matching the whole of s
IsWordRun(s) == s # <<>> /\ \A i \in DOMAIN s : IsWordChar(s[i])

RECURSIVE Concat(_)
Concat(parts) == IF parts = <<>> THEN <<>> ELSE Head(parts) \o Concat(Tail(parts))

\* the sequences over S of length at most n
SeqsUpTo(S, n) == UNION {[1..k -> S] : k \in 0..n}

---------------------------------------------------------------------------
(* parseSalutation *)

Herr == <<"H", "e", "r", "r">>
Frau == <<"F", "r", "a", "u">>
MrDot == <<"M", "r", ".">>
MsDot == <<"M", "s", ".">>
MrsDot == <<"M", "r", "s", ".">>

maleSalutations == <<MrDot, Herr>>
femaleSalutations == <<MsDot, MrsDot, Frau>>

NoMatch == [matched |-> FALSE]

\* s.match(/^(h)\s(\w+)(?:\s(\w+))?$/i) for one honorific h: the groups 1..3,
\* group 3 undefined when the optional part did not take part in the match
MatchOne(s, h) ==
    LET n == Len(h)
        rest == SubSeq(s, n + 2, Len(s))
        splits == {k \in DOMAIN rest :
                      /\ IsSpaceChar(rest[k])
                      /\ IsWordRun(SubSeq(rest, 1, k - 1))
                      /\ IsWordRun(SubSeq(rest, k + 1, Len(rest)))}
    IN  IF \/ Len(s) < n + 2
           \/ LowerCase(SubSeq(s, 1, n)) # LowerCase(h)
           \/ ~IsSpaceChar(s[n + 1])
        THEN NoMatch
        ELSE IF IsWordRun(rest)
        THEN [matched |-> TRUE, g1 |-> Str(SubSeq(s, 1, n)), g2 |-> Str(rest), g3 |-> Undefined]
        ELSE IF splits # {}
        THEN LET k == CHOOSE k \in splits : TRUE
             IN  [matched |-> TRUE, g1 |-> Str(SubSeq(s, 1, n)),
                  g2 |-> Str(SubSeq(rest, 1, k - 1)),
                  g3 |-> Str(SubSeq(rest, k + 1, Len(rest)))]
        ELSE NoMatch

\* s.match(/^(h1|h2|...)\s(\w+)(?:\s(\w+))?$/i): the first alternative that matches
RECURSIVE Match(_, _)
Match(s, honorifics) ==
    IF honorifics = <<>> THEN NoMatch
    ELSE LET m == MatchOne(s, Head(honorifics))
         IN  IF m.matched THEN m ELSE Match(s, Tail(honorifics))

\* lib/provider/immoscout.js parseSalutation: both branches pick
\* match[1] && match[2] ? match[2] : match[1]
parseSalutation(v) ==
    IF ~Truthy(v) \/ ~IsString(v) THEN Null
    ELSE LET trimmedName == Trim(v.s)
             maleMatch == Match(trimmedName, maleSalutations)
             femaleMatch == Match(trimmedName, femaleSalutations)
         IN  IF maleMatch.matched
             THEN [t |-> "salutation", gender |-> "male",
                   lastName |-> IF Truthy(maleMatch.g1) /\ Truthy(maleMatch.g2)
                                THEN maleMatch.g2 ELSE maleMatch.g1]
             ELSE IF femaleMatch.matched
             THEN [t |-> "salutation", gender |-> "female",
                   lastName |-> IF Truthy(femaleMatch.g1) /\ Truthy(femaleMatch.g2)
                                THEN femaleMatch.g2 ELSE femaleMatch.g1]
             ELSE Null

\* the second copy (the script appended to geocoding.js): the male branch picks
\* match[2] && match[3] ? match[3] : match[2], the female branch is as above
scriptParseSalutation(v) ==
    IF ~Truthy(v) \/ ~IsString(v) THEN Null
    ELSE LET trimmedName == Trim(v.s)
             maleMatch == Match(trimmedName, maleSalutations)
             femaleMatch == Match(trimmedName, femaleSalutations)
         IN  IF maleMatch.matched
             THEN [t |-> "salutation", gender |-> "male",
                   lastName |-> IF Truthy(maleMatch.g2) /\ Truthy(maleMatch.g3)
                                THEN maleMatch.g3 ELSE maleMatch.g2]
             ELSE IF femaleMatch.matched
             THEN [t |-> "salutation", gender |-> "female",
                   lastName |-> IF Truthy(femaleMatch.g1) /\ Truthy(femaleMatch.g2)
                                THEN femaleMatch.g2 ELSE femaleMatch.g1]
             ELSE Null

\* the pieces the checked names are put together from
MaxNameParts == 5
NameParts ==
    {Herr, <<"F", "R", "A", "U">>, MrsDot, <<" ">>, <<"-">>, <<"E", "r", "i">>, <<"M", "u">>}
Names(maxParts) ==
    {Null, Undefined, Num(7)} \cup {Str(Concat(p)) : p \in SeqsUpTo(NameParts, maxParts)}

---------------------------------------------------------------------------
(* getListings *)

Arr(items) == [t |-> "arr", a |-> items]

\* metaInformation.baseUrl + 'expose/' + id
Link(id) == [t |-> "link", base |-> "https://www.immobilienscout24.de/", path |-> "expose/", id |-> id]

\* a?.value
OptValue(a) == IF IsNullish(a) THEN Undefined ELSE a.value
\* a?.line
OptLine(a) == IF IsNullish(a) THEN Undefined ELSE a.line
\* arr[i] of a JavaScript array, undefined past its end
At(arr, i) == IF i \in DOMAIN arr THEN arr[i] ELSE Undefined

\* the callback of .map in getListings; throws when item.attributes cannot be
\* destructured
ExposeToRaw(expose) ==
    LET item == expose.item
    IN  IF item.attributes.t # "arr" THEN Thrown
        ELSE [t |-> "raw",
              id |-> item.id,
              price |-> OptValue(At(item.attributes.a, 1)),
              size |-> OptValue(At(item.attributes.a, 2)),
              title |-> item.title,
              link |-> Link(item.id),
              address |-> OptLine(item.address)]

IsExposeResult(entry) == entry.type = "EXPOSE_RESULT"

\* getListings(url) for one outcome of the upstream search call: the array it
\* resolves to, or Thrown when its promise rejects
getListings(outcome) ==
    IF outcome.k = "networkError" THEN Thrown                \* await fetch(...) rejects
    ELSE IF ~outcome.ok THEN Arr(<<>>)
    ELSE IF outcome.body.t = "invalidJson" THEN Thrown       \* await response.json() rejects
    ELSE IF outcome.body.resultListItems.t # "arr" THEN Thrown   \* undefined.filter
    ELSE LET exposes == SelectSeq(outcome.body.resultListItems.a, IsExposeResult)
             mapped == [i \in DOMAIN exposes |-> ExposeToRaw(exposes[i])]
         IN  IF \E i \in DOMAIN mapped : mapped[i] = Thrown THEN Thrown
             ELSE Arr(mapped)

---------------------------------------------------------------------------
(* normalize *)

NoTitleFound ==
    Str(<<"N", "O", " ", "T", "I", "T", "L", "E", " ", "F", "O", "U", "N", "D">>)
NoAddressFound ==
    Str(<<"N", "O", " ", "A", "D", "D", "R", "E", "S", "S", " ", "F", "O", "U", "N", "D">>)
NEU == <<"N", "E", "U">>

\* s.replace(pat, ''): the first occurrence of the substring pat removed
RemoveFirst(s, pat) ==
    LET hits == {i \in 1..(Len(s) - Len(pat) + 1) : SubSeq(s, i, i + Len(pat) - 1) = pat}
    IN  IF hits = {} THEN s
        ELSE LET i == CHOOSE i \in hits : \A j \in hits : i <= j
             IN  SubSeq(s, 1, i - 1) \o SubSeq(s, i + Len(pat), Len(s))

\* s.replace(/\(.*\),.*$/, ''): from the leftmost "(" that a later "),"
\* follows, everything to the end is removed
RemoveParenthesised(s) ==
    LET opens == {i \in DOMAIN s :
                     /\ s[i] = "("
                     /\ \E j \in (i + 1)..(Len(s) - 1) : s[j] = ")" /\ s[j + 1] = ","
                     /\ \A j \in i..Len(s) : s[j] # "\n"}
    IN  IF opens = {} THEN s
        ELSE LET i == CHOOSE i \in opens : \A j \in opens : i <= j
             IN  SubSeq(s, 1, i - 1)

nullOrEmptyNullOnly(val) == IsNullish(val)

\* val == null || val.length === 0
nullOrEmpty(val) == IsNullish(val) \/ (IsString(val) /\ Len(val.s) = 0)

\* utils.buildHash(id, price): a hash that tells any two (id, price) pairs apart
buildHash(id, price) == [t |-> "hash", id |-> id, price |-> price]

normalizeIdOnly(item) ==
    [item EXCEPT
        !.id = buildHash(item.id, Undefined),
        !.title = IF nullOrEmpty(item.title) THEN NoTitleFound
                  ELSE Str(RemoveFirst(item.title.s, NEU)),
        !.address = IF nullOrEmpty(item.address) THEN NoAddressFound
                    ELSE Str(Trim(RemoveParenthesised(item.address.s)))]

\* Object.assign(o, {id, title, address})
normalize(item) ==
    [item EXCEPT
        !.id = buildHash(item.id, item.price),
        !.title = IF nullOrEmpty(item.title) THEN NoTitleFound
                  ELSE Str(RemoveFirst(item.title.s, NEU)),
        !.address = IF nullOrEmpty(item.address) THEN NoAddressFound
                    ELSE Str(Trim(RemoveParenthesised(item.address.s)))]

---------------------------------------------------------------------------
(* notification registry: findAdapter, send *)

\* adapters.find((a) => a.config.id === notificationAdapter.id): the index of
\* the first discovered adapter with the entry's id, 0 when there is none
findAdapter(discovered, entry) ==
    LET hits == {i \in DOMAIN discovered : discovered[i].id = entry.id}
    IN  IF hits = {} THEN 0 ELSE CHOOSE i \in hits : \A j \in hits : i <= j

\* .filter(findAdapter(e) != null).map(findAdapter): the adapters of the
\* entries that have one, in configured order
RECURSIVE MatchingAdapters(_, _)
MatchingAdapters(discovered, entries) ==
    IF entries = <<>> THEN <<>>
    ELSE LET i == findAdapter(discovered, Head(entries))
             rest == MatchingAdapters(discovered, Tail(entries))
         IN  IF i = 0 THEN rest ELSE <<discovered[i]>> \o rest

\* .map((a) => a.send(payload)): the sends are called one after the other; a
\* send that throws ends the map, and with it send, at once
RECURSIVE CallSends(_, _, _)
CallSends(found, payload, done) ==
    IF found = <<>> THEN [attempted |-> done, result |-> "returned"]
    ELSE LET call == [adapter |-> Head(found).id, payload |-> payload]
         IN  IF Head(found).send = "throws"
             THEN [attempted |-> Append(done, call), result |-> "thrown"]
             ELSE CallSends(Tail(found), payload, Append(done, call))

send(discovered, serviceName, newListings, entries, jobKey) ==
    CallSends(MatchingAdapters(discovered, entries),
              [serviceName |-> serviceName, newListings |-> newListings,
               notificationConfig |-> entries, jobKey |-> jobKey],
              <<>>)

---------------------------------------------------------------------------
(* geocoding: reverseGeocode, extractAddressComponents, getSuburb *)

\* a || null
OrNull(a) == IF Truthy(a) THEN a ELSE Null
\* a || b
Or(a, b) == IF Truthy(a) THEN a ELSE b

extractAddressComponents(geocodeResponse) ==
    IF IsNullish(geocodeResponse) \/ ~Truthy(geocodeResponse.address) THEN Null
    ELSE LET address == geocodeResponse.address
         IN  [t |-> "components",
              houseNumber |-> OrNull(address.house_number),
              street |-> OrNull(address.road),
              neighbourhood |-> OrNull(address.neighbourhood),
              suburb |-> OrNull(address.suburb),
              borough |-> OrNull(address.borough),
              city |-> Or(address.city, Or(address.town, OrNull(address.village))),
              postcode |-> OrNull(address.postcode),
              country |-> OrNull(address.country),
              countryCode |-> OrNull(address.country_code),
              displayName |-> OrNull(geocodeResponse.display_name)]

\* the two checks reverseGeocode makes before it builds the url
coordinatesAccepted(lat, lon) ==
    /\ ~(IsNullish(lat) \/ IsNullish(lon))
    /\ IsNumberType(lat) /\ IsNumberType(lon)

\* what reverseGeocode returns once the throttled fetch has settled; every
\* rejection inside the try block is caught
geocodeResult(outcome) ==
    IF outcome.k = "networkError" THEN Null
    ELSE IF ~outcome.ok THEN Null
    ELSE IF outcome.body.t = "invalidJson" THEN Null
    ELSE IF outcome.body.t = "null" THEN Null    \* data.error of null throws, caught
    ELSE IF Truthy(outcome.body.error) THEN Null
    ELSE extractAddressComponents(outcome.body)

\* geocodeResult?.suburb || null
suburbOf(result) == IF IsNullish(result) THEN Null ELSE OrNull(result.suburb)

\* getSuburb(lat, lon) for one outcome of the geocoding request
getSuburb(lat, lon, outcome) ==
    suburbOf(IF coordinatesAccepted(lat, lon) THEN geocodeResult(outcome) ELSE Null)

---------------------------------------------------------------------------
(* getListingInfo *)

DigitValue(c) == (CHOOSE i \in DOMAIN DigitChars : DigitChars[i] = c) - 1
IsDigit(c) == c \in Range(DigitChars)

RECURSIVE DigitsValue(_, _)
DigitsValue(s, acc) ==
    IF s = <<>> \/ ~IsDigit(Head(s)) THEN acc
    ELSE DigitsValue(Tail(s), 10 * acc + DigitValue(Head(s)))

\* parseInt(text, 10): leading white space and a sign are skipped, the
\* leading digits are read, and with no digit the result is NaN
parseInt(text) ==
    IF ~IsString(text) THEN NaN
    ELSE LET s == TrimStart(text.s)
             signed == s # <<>> /\ Head(s) \in {"+", "-"}
             digits == IF signed THEN Tail(s) ELSE s
         IN  IF digits = <<>> \/ ~IsDigit(Head(digits)) THEN NaN
             ELSE Num((IF signed /\ Head(s) = "-" THEN -1 ELSE 1) * DigitsValue(digits, 0))

\* sections?.find((section) => section.type === type)
FindSection(sections, type) ==
    IF IsNullish(sections) THEN Undefined
    ELSE LET hits == {i \in DOMAIN sections.a : sections.a[i].type = type}
         IN  IF hits = {} THEN Undefined
             ELSE sections.a[CHOOSE i \in hits : \A j \in hits : i <= j]

Zimmer == <<"Z", "i", "m", "m", "e", "r">>

\* attributes?.find((attr) => attr.label === 'Zimmer')
FindRooms(attributes) ==
    IF IsNullish(attributes) THEN Undefined
    ELSE LET hits == {i \in DOMAIN attributes.a : attributes.a[i].label = Zimmer}
         IN  IF hits = {} THEN Undefined
             ELSE attributes.a[CHOOSE i \in hits : \A j \in hits : i <= j]

roomCountOf(responseBody) ==
    LET topAttributesSection == FindSection(responseBody.sections, "TOP_ATTRIBUTES")
        roomsAttribute ==
            IF Truthy(topAttributesSection)
            THEN FindRooms(topAttributesSection.attributes) ELSE Undefined
    IN  IF Truthy(roomsAttribute) THEN parseInt(roomsAttribute.text) ELSE Null

mapSectionOf(responseBody) ==
    LET section == FindSection(responseBody.sections, "MAP")
    IN  IF IsNullish(section) THEN Undefined ELSE section.location

\* getListingInfo(listingId) for one detail response and one outcome of the
\* geocoding request getSuburb makes: null, the record, or Thrown
getListingInfo(listingId, response, geoOutcome) ==
    IF response.k = "networkError" THEN Thrown               \* await fetch(...) rejects
    ELSE IF ~response.ok THEN Null
    ELSE IF response.body.t = "invalidJson" THEN Thrown      \* await response.json() rejects
    ELSE LET responseBody == response.body
             mapSection == mapSectionOf(responseBody)
         IN  [t |-> "info",
              id |-> listingId,
              roomCount |-> roomCountOf(responseBody),
              suburb |-> IF Truthy(mapSection)
                         THEN getSuburb(mapSection.lat, mapSection.lng, geoOutcome)
                         ELSE Null,
              salutation |-> IF Truthy(responseBody.contactName)
                             THEN parseSalutation(responseBody.contactName)
                             ELSE Null]

---------------------------------------------------------------------------
(* blacklist: utils.isOneOf, applyBlacklist *)

Contains(hay, needle) ==
    \E i \in 1..(Len(hay) - Len(needle) + 1) : SubSeq(hay, i, i + Len(needle) - 1) = needle

\* utils.isOneOf(word, arr): word contains an entry of arr
isOneOf(word, arr) == \E i \in DOMAIN arr : Contains(word.s, arr[i])

\* applyBlacklist(o) against the module's current appliedBlackList
applyBlacklist(listing, blackList) == ~isOneOf(listing.title, blackList)

---------------------------------------------------------------------------
(* The state each component starts in, and stays in under the              *)
(* specifications of the other components                                  *)

SalutationIdle == name = Null /\ salutation = Pending /\ scriptSalutation = Pending
ListingsIdle == upstream = Pending /\ listings = Pending
NormalizeIdle == raw = Pending /\ o = Pending /\ assigned = {}
NotifyIdle ==
    adapters = <<>> /\ notificationConfig = <<>> /\ attempted = <<>> /\ sendResult = "idle"
GeoIdle ==
    currentTick = 0 /\ activeCount = 0 /\ calls = <<>> /\ started = <<>> /\ completed = <<>>
DetailIdle == detail = Pending /\ listingInfo = Pending
BlacklistIdle ==
    appliedBlackList = <<>> /\ config = [url |-> Null, enabled |-> Undefined] /\ jobs = <<>>
ViewIdle ==
    /\ mounted = FALSE /\ processingTimes = Null /\ timeoutId = Null
    /\ requestPending = FALSE /\ lastRun = 0

---------------------------------------------------------------------------
(* SpecSalutation: parseSalutation applied to the names of Names *)

InitSalutation ==
    /\ name \in Names(MaxNameParts) /\ salutation = Pending /\ scriptSalutation = Pending
    /\ ListingsIdle /\ NormalizeIdle /\ NotifyIdle /\ now = 0 /\ GeoIdle /\ DetailIdle
    /\ BlacklistIdle /\ ViewIdle

ParseSalutation ==
    /\ salutation = Pending
    /\ salutation' = parseSalutation(name)
    /\ UNCHANGED <<name, scriptSalutation, listingsVars, normalizeVars, notifyVars, now,
                   geoVars, detailVars, blacklistVars, viewVars>>

ScriptParseSalutation ==
    /\ scriptSalutation = Pending
    /\ scriptSalutation' = scriptParseSalutation(name)
    /\ UNCHANGED <<name, salutation, listingsVars, normalizeVars, notifyVars, now,
                   geoVars, detailVars, blacklistVars, viewVars>>

NextSalutation == ParseSalutation \/ ScriptParseSalutation
SpecSalutation == InitSalutation /\ [][NextSalutation]_vars

---------------------------------------------------------------------------
(* SpecListings: getListings against every outcome of the search call *)

MaxResultItems == 2
ItemIds == {Str(<<"1">>), Str(<<"2">>)}
Attr(v) == [t |-> "attr", value |-> v]
AttributeLists ==
    {Undefined, Arr(<<>>), Arr(<<Attr(Str(<<"9">>))>>),
     Arr(<<Attr(Str(<<"9">>)), Attr(Str(<<"5", "0">>))>>)}
Items ==
    [t : {"item"}, id : ItemIds, title : {Str(<<"x">>)}, attributes : AttributeLists,
     address : {Undefined, [t |-> "address", line |-> Str(<<"a">>)]}]
ResultListEntries == [type : {"EXPOSE_RESULT", "ADVERTISEMENT"}, item : Items]
SearchBodies(maxItems) ==
    {[t |-> "invalidJson"], [t |-> "obj", resultListItems |-> Undefined]}
    \cup {[t |-> "obj", resultListItems |-> Arr(a)] :
            a \in SeqsUpTo(ResultListEntries, maxItems)}
SearchOutcomes(maxItems) ==
    {[k |-> "networkError"], [k |-> "response", ok |-> FALSE, body |-> [t |-> "invalidJson"]]}
    \cup {[k |-> "response", ok |-> TRUE, body |-> b] : b \in SearchBodies(maxItems)}

InitListings ==
    /\ upstream \in SearchOutcomes(MaxResultItems) /\ listings = Pending
    /\ SalutationIdle /\ NormalizeIdle /\ NotifyIdle /\ now = 0 /\ GeoIdle /\ DetailIdle
    /\ BlacklistIdle /\ ViewIdle

GetListings ==
    /\ listings = Pending /\ upstream # Pending
    /\ listings' = getListings(upstream)
    /\ UNCHANGED <<upstream, salutationVars, normalizeVars, notifyVars, now, geoVars,
                   detailVars, blacklistVars, viewVars>>

NextListings == GetListings
SpecListings == InitListings /\ [][NextListings]_vars

---------------------------------------------------------------------------
(* SpecNormalize: normalize applied to one raw item;                       *)
(* SpecIds: raw items fetched and normalized cycle after cycle             *)

MaxTitleLen == 3
MaxAddressLen == 3
TitleChars == {"N", "E", "U", "x"}
AddressChars == {"(", ")", ",", " ", "a"}
Titles(maxLen) == {Null, Undefined} \cup {Str(s) : s \in SeqsUpTo(TitleChars, maxLen)}
Addresses(maxLen) == {Null, Undefined} \cup {Str(s) : s \in SeqsUpTo(AddressChars, maxLen)}

RawItem(id, price, size, title, address) ==
    [t |-> "raw", id |-> id, price |-> price, size |-> size, title |-> title,
     link |-> Link(id), address |-> address]

\* the raw items normalize is checked on: every title with a few addresses,
\* and every address with a few titles
RawItems(maxTitle, maxAddress) ==
    {RawItem(Str(<<"1">>), Str(<<"9">>), Str(<<"5", "0">>), ti, ad) :
        ti \in Titles(maxTitle), ad \in Addresses(1)}
    \cup {RawItem(Str(<<"1">>), Str(<<"9">>), Str(<<"5", "0">>), ti, ad) :
        ti \in Titles(1), ad \in Addresses(maxAddress)}

Prices == {Undefined, Str(<<"9">>), Str(<<"7">>)}
CycleItems ==
    {RawItem(id, pr, Undefined, ti, Str(<<"a">>)) :
        id \in ItemIds, pr \in Prices, ti \in {Undefined, Str(<<"x">>)}}

InitNormalize ==
    /\ raw \in RawItems(MaxTitleLen, MaxAddressLen) /\ o = raw /\ assigned = {}
    /\ SalutationIdle /\ ListingsIdle /\ NotifyIdle /\ now = 0 /\ GeoIdle /\ DetailIdle
    /\ BlacklistIdle /\ ViewIdle

InitIds ==
    /\ NormalizeIdle
    /\ SalutationIdle /\ ListingsIdle /\ NotifyIdle /\ now = 0 /\ GeoIdle /\ DetailIdle
    /\ BlacklistIdle /\ ViewIdle

\* a polling cycle hands the next raw item of getListings to normalize
FetchItem ==
    /\ raw # Pending => o # raw
    /\ \E item \in CycleItems : raw' = item /\ o' = item
    /\ UNCHANGED <<assigned, salutationVars, listingsVars, notifyVars, now, geoVars,
                   detailVars, blacklistVars, viewVars>>

Normalize ==
    /\ raw # Pending /\ o = raw
    /\ o' = normalize(o)
    /\ assigned' = assigned \cup
          {[nativeId |-> raw.id, price |-> raw.price, title |-> raw.title, id |-> o'.id]}
    /\ UNCHANGED <<raw, salutationVars, listingsVars, notifyVars, now, geoVars,
                   detailVars, blacklistVars, viewVars>>

NextNormalize == Normalize
SpecNormalize == InitNormalize /\ [][NextNormalize]_vars

NextIds == FetchItem \/ Normalize
SpecIds == InitIds /\ [][NextIds]_vars

---------------------------------------------------------------------------
(* SpecNotify: one dispatch through the notification registry *)

MaxChannels == 3
AdapterIds == {"slack", "mailjet"}
ChannelIds == AdapterIds \cup {"telegram"}
\* what an adapter's send does when called: its promise resolves, its promise
\* rejects, or the call itself throws
SendBehaviours == {"resolves", "rejects", "throws"}
AdapterModules == [id : AdapterIds, send : SendBehaviours]
\* the adapters read from ./adapter: one module per file, at least one (the
\* module throws at load time otherwise)
Discoveries ==
    {d \in SeqsUpTo(AdapterModules, Cardinality(AdapterIds)) :
        /\ Len(d) # 0
        /\ \A i, j \in DOMAIN d : i # j => d[i].id # d[j].id}
ChannelEntries == [id : ChannelIds]
Configurations(maxEntries) == SeqsUpTo(ChannelEntries, maxEntries)

InitNotify ==
    /\ adapters \in Discoveries
    /\ notificationConfig \in Configurations(MaxChannels)
    /\ attempted = <<>> /\ sendResult = "idle"
    /\ SalutationIdle /\ ListingsIdle /\ NormalizeIdle /\ now = 0 /\ GeoIdle /\ DetailIdle
    /\ BlacklistIdle /\ ViewIdle

Payload ==
    [serviceName |-> "immoscout", newListings |-> <<"listing">>,
     notificationConfig |-> notificationConfig, jobKey |-> "job"]

Send ==
    /\ sendResult = "idle" /\ adapters # <<>>
    /\ LET r == send(adapters, "immoscout", <<"listing">>, notificationConfig, "job")
       IN  attempted' = r.attempted /\ sendResult' = r.result
    /\ UNCHANGED <<adapters, notificationConfig, salutationVars, listingsVars,
                   normalizeVars, now, geoVars, detailVars, blacklistVars, viewVars>>

NextNotify == Send
SpecNotify == InitNotify /\ [][NextNotify]_vars

---------------------------------------------------------------------------
(* SpecDetail: getListingInfo against detail responses and geocoding       *)
(* outcomes                                                                *)

Etage == <<"E", "t", "a", "g", "e">>
RoomAttr(label, text) == [t |-> "attr", label |-> label, text |-> text]
RoomTexts == {Str(<<"3">>), Str(<<"2", ",", "5">>), Str(<<"k", ".", "A", ".">>), Str(<<>>)}
TopAttributeSections ==
    {[t |-> "section", type |-> "TOP_ATTRIBUTES", attributes |-> Undefined],
     [t |-> "section", type |-> "TOP_ATTRIBUTES",
      attributes |-> Arr(<<RoomAttr(Etage, Str(<<"2">>))>>)]}
    \cup {[t |-> "section", type |-> "TOP_ATTRIBUTES",
           attributes |-> Arr(<<RoomAttr(Etage, Str(<<"2">>)), RoomAttr(Zimmer, x)>>)] :
             x \in RoomTexts}
Locations ==
    {Undefined,
     [t |-> "location", lat |-> Num(52), lng |-> Num(13)],
     [t |-> "location", lat |-> Undefined, lng |-> Num(13)],
     [t |-> "location", lat |-> Str(<<"5", "2">>), lng |-> Num(13)]}
MapSections == {[t |-> "section", type |-> "MAP", location |-> l] : l \in Locations}
SectionLists ==
    {Undefined, Arr(<<>>)}
    \cup {Arr(<<a>>) : a \in TopAttributeSections \cup MapSections}
    \cup {Arr(<<a, m>>) : a \in TopAttributeSections, m \in MapSections}
ContactNames ==
    {Undefined, Str(<<>>),
     Str(Frau \o <<" ">> \o <<"E", "r", "i">> \o <<" ">> \o <<"M", "u">>),
     Str(Herr \o <<" ">> \o <<"M", "u">>),
     Str(<<"I", "m", "m", "o">> \o <<" ">> \o <<"G", "m", "b", "H">>)}
\* a detail body: contactName stands for contact?.contactData?.agent?.name
DetailBodies ==
    {[t |-> "invalidJson"]}
    \cup [t : {"obj"}, sections : SectionLists, contactName : ContactNames]
DetailResponses ==
    {[k |-> "response", ok |-> FALSE, body |-> [t |-> "invalidJson"]]}
    \cup {[k |-> "response", ok |-> TRUE, body |-> b] : b \in DetailBodies}

Mitte == Str(<<"M", "i", "t", "t", "e">>)
NominatimAddress(suburb) ==
    [t |-> "address", house_number |-> Undefined, road |-> Str(<<"R", "d">>),
     neighbourhood |-> Undefined, suburb |-> suburb, borough |-> Undefined,
     city |-> Undefined, town |-> Str(<<"T">>), village |-> Undefined,
     postcode |-> Str(<<"1", "0">>), country |-> Undefined, country_code |-> Str(<<"d", "e">>)]
GeoBodies ==
    {[t |-> "invalidJson"], [t |-> "null"],
     [t |-> "obj", error |-> Str(<<"e", "r", "r">>), address |-> Undefined,
      display_name |-> Undefined],
     [t |-> "obj", error |-> Undefined, address |-> Undefined, display_name |-> Undefined],
     [t |-> "obj", error |-> Undefined, address |-> NominatimAddress(Mitte),
      display_name |-> Str(<<"R", "d">>)],
     [t |-> "obj", error |-> Undefined, address |-> NominatimAddress(Undefined),
      display_name |-> Undefined]}
GeoOutcomes ==
    {[k |-> "networkError"], [k |-> "response", ok |-> FALSE, body |-> [t |-> "null"]]}
    \cup {[k |-> "response", ok |-> TRUE, body |-> b] : b \in GeoBodies}

InitDetail ==
    /\ detail \in [response : DetailResponses, geo : GeoOutcomes]
    /\ listingInfo = Pending
    /\ SalutationIdle /\ ListingsIdle /\ NormalizeIdle /\ NotifyIdle /\ now = 0 /\ GeoIdle
    /\ BlacklistIdle /\ ViewIdle

GetListingInfo ==
    /\ listingInfo = Pending /\ detail # Pending
    /\ listingInfo' = getListingInfo(Str(<<"1">>), detail.response, detail.geo)
    /\ UNCHANGED <<detail, salutationVars, listingsVars, normalizeVars, notifyVars, now,
                   geoVars, blacklistVars, viewVars>>

NextDetail == GetListingInfo
SpecDetail == InitDetail /\ [][NextDetail]_vars

---------------------------------------------------------------------------
(* SpecGeo, SpecThrottle: concurrent reverseGeocode calls through the      *)
(* process-wide limiter pThrottle({limit: 1, interval: 1000})              *)
(*                                                                         *)
(* Time is in milliseconds.  A call that passes the two checks hands its   *)
(* request to the limiter, which sets a timer for it; the timer's callback *)
(* starts the fetch.  A timer fires no earlier than it is due (and at most *)
(* MaxLate steps of the clock later), and the timers fire in the order     *)
(* they are due.                                                           *)

limit == 1
interval == 1000

MaxCalls == 3
MaxGeoCalls == 2
MaxTicks == 2
\* a timer fires at most MaxLate steps after it is due
MaxLate == 1
\* the clock advances in steps of half an interval
Step == interval \div 2
\* Date.now() when the first call can arrive: later than one interval after 0
StartTime == interval + Step
\* no call arrives after Horizon
Horizon == StartTime + MaxTicks * Step
NoTime == 0 - 1

CallIds == 1..MaxCalls
IdleCall ==
    [status |-> "idle", lat |-> Undefined, lon |-> Undefined, enqueued |-> FALSE,
     issuedAt |-> NoTime, due |-> NoTime, startedAt |-> NoTime, result |-> Pending]

FiniteCoordinates == {<<Num(52), Num(13)>>}
Coordinates ==
    FiniteCoordinates \cup
    {<<Null, Num(13)>>, <<Num(52), Undefined>>, <<Str(<<"x">>), Num(13)>>,
     <<NaN, Num(13)>>, <<Num(52), Infinity>>}

\* the limiter's bookkeeping when a call arrives at time t: the delay of the
\* call's timer and the new window
windowedDelay(t, tick, count) ==
    IF t - tick > interval
    THEN [delay |-> 0, currentTick |-> t, activeCount |-> 1]
    ELSE IF count < limit
    THEN [delay |-> tick - t, currentTick |-> tick, activeCount |-> count + 1]
    ELSE [delay |-> tick + interval - t, currentTick |-> tick + interval, activeCount |-> 1]

Max(a, b) == IF a >= b THEN a ELSE b

\* fetch called directly, without the limiter
unthrottledFetch(c, request) ==
    /\ calls' = [calls EXCEPT ![c] = [request EXCEPT !.status = "queued", !.enqueued = TRUE,
                                                     !.due = now]]
    /\ UNCHANGED <<currentTick, activeCount>>

\* throttledFetch(url): setTimeout(execute, getDelay())
throttledFetch(c, request) ==
    LET w == windowedDelay(now, currentTick, activeCount)
    IN  /\ calls' = [calls EXCEPT ![c] = [request EXCEPT !.status = "queued",
                                                         !.enqueued = TRUE,
                                                         !.due = now + Max(0, w.delay)]]
        /\ currentTick' = w.currentTick
        /\ activeCount' = w.activeCount

InitCalls(n) ==
    /\ now = StartTime
    /\ currentTick = 0 /\ activeCount = 0
    /\ calls = [c \in 1..n |-> IdleCall]
    /\ started = <<>> /\ completed = <<>>
    /\ SalutationIdle /\ ListingsIdle /\ NormalizeIdle /\ NotifyIdle /\ DetailIdle
    /\ BlacklistIdle /\ ViewIdle

\* reverseGeocode(lat, lon) is called: the calls are numbered in arrival order
ReverseGeocode(c, lat, lon) ==
    /\ calls # <<>> /\ calls[c].status = "idle"
    /\ \A b \in DOMAIN calls : b < c => calls[b].status # "idle"
    /\ now <= Horizon
    /\ LET request == [IdleCall EXCEPT !.lat = lat, !.lon = lon, !.issuedAt = now]
       IN  IF coordinatesAccepted(lat, lon)
           THEN /\ throttledFetch(c, request)
                /\ UNCHANGED completed
           ELSE /\ calls' = [calls EXCEPT ![c] = [request EXCEPT !.status = "done",
                                                                 !.result = Null]]
                /\ completed' = Append(completed, c)
                /\ UNCHANGED <<currentTick, activeCount>>
    /\ UNCHANGED <<now, started, salutationVars, listingsVars, normalizeVars, notifyVars,
                   detailVars, blacklistVars, viewVars>>

Queued == {c \in DOMAIN calls : calls[c].status = "queued"}

\* the timer of call c fires: the wrapped function runs and fetch starts
TimerFire(c) ==
    /\ c \in Queued
    /\ calls[c].due <= now
    /\ \A d \in Queued : <<calls[c].due, c>> = <<calls[d].due, d>>
                         \/ calls[c].due < calls[d].due
                         \/ (calls[c].due = calls[d].due /\ c < d)
    /\ calls' = [calls EXCEPT ![c].status = "fetching", ![c].startedAt = now]
    /\ started' = Append(started, c)
    /\ UNCHANGED <<now, currentTick, activeCount, completed, salutationVars, listingsVars,
                   normalizeVars, notifyVars, detailVars, blacklistVars, viewVars>>

\* the request of call c settles and reverseGeocode returns
FetchSettle(c, outcome) ==
    /\ c \in DOMAIN calls /\ calls[c].status = "fetching"
    /\ calls' = [calls EXCEPT ![c].status = "done", ![c].result = geocodeResult(outcome)]
    /\ completed' = Append(completed, c)
    /\ UNCHANGED <<now, currentTick, activeCount, started, salutationVars, listingsVars,
                   normalizeVars, notifyVars, detailVars, blacklistVars, viewVars>>

\* time passes
Tick ==
    /\ calls # <<>>
    /\ now >= Horizon => \E c \in Queued : calls[c].due > now
    /\ \A c \in Queued : now - calls[c].due < MaxLate * Step
    /\ now' = now + Step
    /\ UNCHANGED <<geoVars, salutationVars, listingsVars, normalizeVars, notifyVars,
                   detailVars, blacklistVars, viewVars>>

InitGeo == InitCalls(MaxGeoCalls)
NextGeo ==
    \/ \E c \in DOMAIN calls, p \in Coordinates : ReverseGeocode(c, p[1], p[2])
    \/ \E c \in DOMAIN calls : TimerFire(c)
    \/ \E c \in DOMAIN calls, outcome \in GeoOutcomes : FetchSettle(c, outcome)
    \/ Tick
SpecGeo == InitGeo /\ [][NextGeo]_vars

\* the limiter under calls that all pass the checks of reverseGeocode
ThrottleOutcomes ==
    {[k |-> "response", ok |-> TRUE,
      body |-> [t |-> "obj", error |-> Undefined, address |-> NominatimAddress(Mitte),
                display_name |-> Undefined]]}
InitThrottle == InitCalls(MaxCalls)
NextThrottle ==
    \/ \E c \in DOMAIN calls, p \in FiniteCoordinates : ReverseGeocode(c, p[1], p[2])
    \/ \E c \in DOMAIN calls : TimerFire(c)
    \/ \E c \in DOMAIN calls, outcome \in ThrottleOutcomes : FetchSettle(c, outcome)
    \/ Tick
SpecThrottle == InitThrottle /\ [][NextThrottle]_vars

\* a due timer fires, a started request settles, and the clock does not stop
\* while a timer is waiting
\* time passes, a timer that is due fires, and a fetch that was started
\* settles (at most one timer is enabled at a time, and the calls are
\* finitely many, so fairness on the disjunctions reaches every call)
FairThrottle ==
    /\ WF_vars(\E c \in CallIds : TimerFire(c))
    /\ WF_vars(\E c \in CallIds, outcome \in ThrottleOutcomes : FetchSettle(c, outcome))
    /\ WF_vars(Tick)
FairSpecThrottle == SpecThrottle /\ FairThrottle

---------------------------------------------------------------------------
(* SpecBlacklist: jobs that run against the one provider module, each      *)
(* calling init with its own blacklist and then filter on its listing      *)

NumJobs == 2
JobIds == 1..NumJobs
BlackLists == {Undefined, Arr(<<>>), Arr(<<<<"x">>>>), Arr(<<<<"a", "b">>, <<"y">>>>)}
JobTitles == {Str(<<"a", "b", "c">>), Str(<<"x", "y">>), NoTitleFound}
SourceConfigs == [url : {Str(<<"u">>)}, enabled : {Num(1)}]

\* services/immoscout/immoscout-web-translator.js convertWebToMobile
convertWebToMobile(url) == [t |-> "mobileUrl", of |-> url]

\* blacklist || []
OrEmptyList(list) == IF Truthy(list) THEN list.a ELSE <<>>

InitBlacklist ==
    /\ appliedBlackList = <<>>
    /\ config = [url |-> Null, enabled |-> Undefined]
    /\ jobs \in [JobIds -> [pc : {"start"}, sourceConfig : SourceConfigs,
                            blacklist : BlackLists, listing : [title : JobTitles],
                            kept : {Pending}]]
    /\ SalutationIdle /\ ListingsIdle /\ NormalizeIdle /\ NotifyIdle /\ now = 0 /\ GeoIdle
    /\ DetailIdle /\ ViewIdle

\* job j calls init(sourceConfig, blacklist)
init(j) ==
    /\ j \in DOMAIN jobs /\ jobs[j].pc = "start"
    /\ config' = [config EXCEPT !.enabled = jobs[j].sourceConfig.enabled,
                                !.url = convertWebToMobile(jobs[j].sourceConfig.url)]
    /\ appliedBlackList' = OrEmptyList(jobs[j].blacklist)
    /\ jobs' = [jobs EXCEPT ![j].pc = "initialised"]
    /\ UNCHANGED <<salutationVars, listingsVars, normalizeVars, notifyVars, now, geoVars,
                   detailVars, viewVars>>

\* job j, its listings fetched and normalized, calls config.filter on one
filter(j) ==
    /\ j \in DOMAIN jobs /\ jobs[j].pc = "initialised"
    /\ jobs' = [jobs EXCEPT ![j].pc = "filtered",
                            ![j].kept = applyBlacklist(jobs[j].listing, appliedBlackList)]
    /\ UNCHANGED <<appliedBlackList, config, salutationVars, listingsVars, normalizeVars,
                   notifyVars, now, geoVars, detailVars, viewVars>>

NextBlacklist == \E j \in JobIds : init(j) \/ filter(j)
SpecBlacklist == InitBlacklist /\ [][NextBlacklist]_vars

---------------------------------------------------------------------------
(* SpecJobsView: the Jobs view's effect that schedules the next refresh of *)
(* the processing times                                                    *)
(*                                                                         *)
(* lastRun is the scheduler's last run as the backend reports it; a        *)
(* getProcessingTimes request, once it settles, stores {lastRun, interval} *)
(* as a new object, which re-runs the effect of a mounted view.  The       *)
(* scheduler runs on time: the clock does not pass a run that is due.      *)

MsPerMinute == 60000
RefreshSlack == 5000
MaxViewTicks == 30
\* the job interval, in minutes
IntervalMinutes == {1}
ViewStart == MsPerMinute
ViewHorizon == ViewStart + MaxViewTicks * RefreshSlack

Timer(due) == [t |-> "timer", due |-> due]
Times(run, minutes) == [t |-> "times", lastRun |-> run, interval |-> minutes]

\* the effect's body: the timer it leaves pending, Null when it sets none
scheduleNextRefresh(times, t) ==
    IF IsNullish(times) \/ times.lastRun = 0 \/ times.interval = 0 THEN Null
    ELSE LET nextRunTime == times.lastRun + times.interval * MsPerMinute
             refreshTime == nextRunTime + RefreshSlack
             msUntilRefresh == Max(0, refreshTime - t)
         IN  IF msUntilRefresh > 0 THEN Timer(t + msUntilRefresh) ELSE Null

InitJobsView ==
    /\ now = ViewStart /\ lastRun = ViewStart
    /\ mounted = FALSE /\ processingTimes = Null /\ timeoutId = Null
    /\ requestPending = TRUE
    /\ SalutationIdle /\ ListingsIdle /\ NormalizeIdle /\ NotifyIdle /\ GeoIdle
    /\ DetailIdle /\ BlacklistIdle

\* the view is rendered for the first time: the effect runs
Mount ==
    /\ ~mounted /\ lastRun # 0
    /\ mounted' = TRUE
    /\ timeoutId' = scheduleNextRefresh(processingTimes, now)
    /\ UNCHANGED <<processingTimes, requestPending, lastRun, now, salutationVars,
                   listingsVars, normalizeVars, notifyVars, geoVars, detailVars,
                   blacklistVars>>

\* the view is destroyed: the effect's clean-up clears the timer
Unmount ==
    /\ mounted
    /\ mounted' = FALSE
    /\ timeoutId' = Null
    /\ UNCHANGED <<processingTimes, requestPending, lastRun, now, salutationVars,
                   listingsVars, normalizeVars, notifyVars, geoVars, detailVars,
                   blacklistVars>>

\* a getProcessingTimes request settles: processingTimes changes, and a
\* mounted view cleans the effect up and runs it again
ProcessingTimesLoaded(minutes) ==
    /\ requestPending
    /\ requestPending' = FALSE
    /\ processingTimes' = Times(lastRun, minutes)
    /\ timeoutId' = IF mounted THEN scheduleNextRefresh(processingTimes', now) ELSE timeoutId
    /\ UNCHANGED <<mounted, lastRun, now, salutationVars, listingsVars, normalizeVars,
                   notifyVars, geoVars, detailVars, blacklistVars>>

\* the refresh timer fires: dispatch.jobs.getProcessingTimes()
RefreshTimerFires ==
    /\ timeoutId # Null /\ timeoutId.due <= now
    /\ timeoutId' = Null
    /\ requestPending' = TRUE
    /\ UNCHANGED <<mounted, processingTimes, lastRun, now, salutationVars, listingsVars,
                   normalizeVars, notifyVars, geoVars, detailVars, blacklistVars>>

RunDue(minutes) == lastRun # 0 /\ now >= lastRun + minutes * MsPerMinute

\* the scheduler runs the jobs
SchedulerRun(minutes) ==
    /\ RunDue(minutes)
    /\ lastRun' = now
    /\ UNCHANGED <<mounted, processingTimes, timeoutId, requestPending, now, salutationVars,
                   listingsVars, normalizeVars, notifyVars, geoVars, detailVars,
                   blacklistVars>>

ViewTick ==
    /\ lastRun # 0 /\ now < ViewHorizon
    /\ \A minutes \in IntervalMinutes : ~RunDue(minutes)
    /\ now' = now + RefreshSlack
    /\ UNCHANGED <<viewVars, salutationVars, listingsVars, normalizeVars, notifyVars,
                   geoVars, detailVars, blacklistVars>>

NextJobsView ==
    \/ Mount
    \/ Unmount
    \/ \E minutes \in IntervalMinutes : ProcessingTimesLoaded(minutes)
    \/ RefreshTimerFires
    \/ \E minutes \in IntervalMinutes : SchedulerRun(minutes)
    \/ ViewTick
SpecJobsView == InitJobsView /\ [][NextJobsView]_vars

---------------------------------------------------------------------------
(* Spec: every component, each run with the others at rest *)

Init ==
    \/ InitSalutation \/ InitListings \/ InitNormalize \/ InitIds \/ InitNotify
    \/ InitGeo \/ InitThrottle \/ InitDetail \/ InitBlacklist \/ InitJobsView

Next ==
    \/ /\ ListingsIdle /\ NormalizeIdle /\ NotifyIdle /\ GeoIdle /\ DetailIdle
       /\ BlacklistIdle /\ ViewIdle
       /\ NextSalutation
    \/ /\ SalutationIdle /\ NormalizeIdle /\ NotifyIdle /\ GeoIdle /\ DetailIdle
       /\ BlacklistIdle /\ ViewIdle
       /\ NextListings
    \/ /\ SalutationIdle /\ ListingsIdle /\ NotifyIdle /\ GeoIdle /\ DetailIdle
       /\ BlacklistIdle /\ ViewIdle
       /\ NextIds
    \/ /\ SalutationIdle /\ ListingsIdle /\ NormalizeIdle /\ GeoIdle /\ DetailIdle
       /\ BlacklistIdle /\ ViewIdle
       /\ NextNotify
    \/ /\ SalutationIdle /\ ListingsIdle /\ NormalizeIdle /\ NotifyIdle /\ DetailIdle
       /\ BlacklistIdle /\ ViewIdle
       /\ NextGeo
    \/ /\ SalutationIdle /\ ListingsIdle /\ NormalizeIdle /\ NotifyIdle /\ GeoIdle
       /\ BlacklistIdle /\ ViewIdle
       /\ NextDetail
    \/ /\ SalutationIdle /\ ListingsIdle /\ NormalizeIdle /\ NotifyIdle /\ GeoIdle
       /\ DetailIdle /\ ViewIdle
       /\ NextBlacklist
    \/ /\ SalutationIdle /\ ListingsIdle /\ NormalizeIdle /\ NotifyIdle /\ GeoIdle
       /\ DetailIdle /\ BlacklistIdle
       /\ NextJobsView

Spec == Init /\ [][Next]_vars

---------------------------------------------------------------------------
(* Claims *)

\* what the contract of parseSalutation gives for a name: null unless the
\* trimmed name is an honorific and one or two name tokens, else the gender
\* of the honorific and the last of the name tokens
ContractSalutation(v) ==
    IF ~IsString(v) THEN Null
    ELSE IF v.s = <<>> THEN Null
    ELSE LET male == Match(Trim(v.s), maleSalutations)
             female == Match(Trim(v.s), femaleSalutations)
             m == IF male.matched THEN male ELSE female
         IN  IF ~m.matched THEN Null
             ELSE [t |-> "salutation",
                   gender |-> IF male.matched THEN "male" ELSE "female",
                   lastName |-> IF m.g3 # Undefined THEN m.g3 ELSE m.g2]

\* C1: parseSalutation returns null for a name that is no string, is empty or
\* is not an accepted honorific followed by one or two name tokens, and else
\* the honorific's gender with the last name token as lastName.
C1_ParseSalutationContract ==
    salutation # Pending => salutation = ContractSalutation(name)

\* C2: getListings never throws: for every outcome of the search call it
\* returns a sequence, the empty one on a non-success status or network error.
C2_GetListingsNeverThrows ==
    listings # Pending =>
        /\ listings.t = "arr"
        /\ (IF upstream.k = "networkError" THEN TRUE ELSE ~upstream.ok) => listings = Arr(<<>>)

Enqueued == {c \in DOMAIN calls : calls[c].enqueued}
Started == {c \in DOMAIN calls : calls[c].startedAt # NoTime}

\* the requests start in the arrival order of their calls
StartsInArrivalOrder ==
    /\ \A i, j \in DOMAIN started : i < j => started[i] < started[j]
    /\ \A c \in Started, d \in Enqueued : d < c => d \in Started
\* no two starts are less than one interval apart
StartsSpaced ==
    \A c, d \in Started : c # d =>
        \/ calls[c].startedAt - calls[d].startedAt >= interval
        \/ calls[d].startedAt - calls[c].startedAt >= interval
\* of three calls made at the same time, the second starts at least one and
\* the third at least two intervals after the first
ThreeSimultaneousAfterFirstStart ==
    ({1, 2, 3} \subseteq Started /\ calls[1].issuedAt = calls[2].issuedAt
        /\ calls[2].issuedAt = calls[3].issuedAt) =>
        /\ calls[2].startedAt >= calls[1].startedAt + interval
        /\ calls[3].startedAt >= calls[1].startedAt + 2 * interval
\* the calls that went through the limiter complete in submission order
CompletionsInSubmissionOrder ==
    \A i, j \in DOMAIN completed :
        (i < j /\ completed[i] \in Enqueued /\ completed[j] \in Enqueued)
            => completed[i] < completed[j]

SlotsSpaced ==
    \A c, d \in Enqueued : c < d => calls[d].due >= calls[c].due + interval
\* no request starts before its slot
NoStartBeforeSlot ==
    /\ \A c \in Enqueued : calls[c].due >= calls[c].issuedAt
    /\ \A c \in Started : calls[c].startedAt >= calls[c].due
\* of three calls made at the same time, the second starts at least one and
\* the third at least two intervals after the calls were made
ThreeSimultaneousAfterIssue ==
    ({1, 2, 3} \subseteq Started /\ calls[1].issuedAt = calls[2].issuedAt
        /\ calls[2].issuedAt = calls[3].issuedAt) =>
        /\ calls[2].startedAt >= calls[1].issuedAt + interval
        /\ calls[3].startedAt >= calls[1].issuedAt + 2 * interval
\* a call never completes before its request has started
CompletesAfterStart ==
    \A c \in Enqueued : calls[c].status = "done" => c \in Started

ThrottleSafety ==
    /\ StartsInArrivalOrder
    /\ SlotsSpaced
    /\ NoStartBeforeSlot
    /\ ThreeSimultaneousAfterIssue
    /\ CompletesAfterStart

\* no call is waiting for its slot or for its request
AllSettled == \A c \in CallIds : calls[c].status \in {"idle", "done"}

HasAdapter(entry) == \E i \in DOMAIN adapters : adapters[i].id = entry.id
ExpectedAttempts ==
    LET matching == SelectSeq(notificationConfig, HasAdapter)
    IN  [i \in DOMAIN matching |-> [adapter |-> matching[i].id, payload |-> Payload]]

\* C4: every configured entry with a discovered adapter has that adapter's
\* send attempted once, in configured order, with the payload; entries
\* without an adapter are skipped; a failing send stops no other send.
C4_EveryMatchingAdapterAttempted ==
    sendResult # "idle" => attempted = ExpectedAttempts

\* C5: reverseGeocode returns null and enqueues nothing when lat or lon is
\* not a finite number, and enqueues exactly one request when both are.
C5_NonFiniteRejectedWithoutRequest ==
    \A c \in DOMAIN calls : calls[c].status # "idle" =>
        IF IsFinite(calls[c].lat) /\ IsFinite(calls[c].lon)
        THEN calls[c].enqueued
        ELSE ~calls[c].enqueued /\ calls[c].result = Null

\* C6: filter keeps a job's listing exactly when its title contains no entry
\* of that job's own blacklist, under every interleaving of the jobs.
C6_FilterUsesOwnBlacklist ==
    \A j \in DOMAIN jobs : jobs[j].pc = "filtered" =>
        jobs[j].kept = ~isOneOf(jobs[j].listing.title, OrEmptyList(jobs[j].blacklist))

\* C7: two raw items with the same native id get the same id exactly when
\* they have the same price, whatever their other fields are.
C7_IdIsFunctionOfNativeIdAndPrice ==
    \A a, b \in assigned : a.nativeId = b.nativeId => (a.price = b.price <=> a.id = b.id)

\* ids were given to two items that differ in the title only and to two
\* that differ in the price only
C7_Witness ==
    /\ \E a, b \in assigned :
          a.nativeId = b.nativeId /\ a.price = b.price /\ a.title # b.title
    /\ \E a, b \in assigned :
          a.nativeId = b.nativeId /\ a.price # b.price /\ a.title = b.title

\* the room count the contract of getListingInfo gives: the parsed integer,
\* null when the text does not parse
ContractRoomCount(body) ==
    IF roomCountOf(body) = NaN THEN Null ELSE roomCountOf(body)

\* C8: on a success response getListingInfo returns a record, without
\* throwing, whose roomCount, suburb and salutation are each the extracted
\* value or null, each decided by its own part of the response; on a
\* non-success response it returns null.
C8_DetailFieldsValueOrNull ==
    listingInfo # Pending =>
        IF ~detail.response.ok THEN listingInfo = Null
        ELSE /\ listingInfo.t = "info"
             /\ listingInfo.roomCount = ContractRoomCount(detail.response.body)
             /\ listingInfo.roomCount.t \in {"null", "num"}
             /\ listingInfo.suburb.t \in {"null", "str"}
             /\ listingInfo.salutation.t \in {"null", "salutation"}

IsAbsent(v) == v \in {Null, Undefined, Str(<<>>)}

\* C9: normalize returns string title and address, the placeholders for a
\* null, undefined or empty input, and leaves price, size and link as they
\* were.
C9_NormalizePlaceholders ==
    (raw # Pending /\ o # raw) =>
        /\ IsString(o.title) /\ IsString(o.address)
        /\ IsAbsent(raw.title) => o.title = NoTitleFound
        /\ IsAbsent(raw.address) => o.address = NoAddressFound
        /\ o.price = raw.price /\ o.size = raw.size /\ o.link = raw.link

\* an item with an empty title and a null address has been normalized
C9_Witness ==
    /\ raw # Pending /\ o # raw
    /\ raw.title = Str(<<>>) /\ raw.address = Null
    /\ o.title = NoTitleFound /\ o.address = NoAddressFound

\* C10: a mounted Jobs view that knows lastRun and interval always has a
\* refresh ahead of it: a timer pending or a request under way.
C10_RefreshAlwaysAhead ==
    (/\ mounted
     /\ processingTimes # Null
     /\ processingTimes.lastRun # 0
     /\ processingTimes.interval # 0) => (timeoutId # Null \/ requestPending)

====
